---- MODULE Spec2Model ----
(***************************************************************************)
(* Model of Create_R2R_Package.py: the R2R packaging run of one OpenVDM    *)
(* cruise.  The script is sequential; every action below is one step of    *)
(* main / interactive_mode / package_for_r2r, and the environment (the     *)
(* lookup service, the operator's input, the file system, the mail relay)  *)
(* supplies the outcomes drawn with \E.                                    *)
(*                                                                         *)
(* Environment failures that are modelled: the lookup returning no         *)
(* identifier, a missing source directory, os.listdir raising (the first   *)
(* call, which is caught, and the second, which is not), a root-file       *)
(* copy raising, an archive build raising, os.path.getsize / calculate_md5 *)
(* raising on a built archive (inside create_tarball and after it), the    *)
(* mail relay raising, and the lookup service answering with JSON that is  *)
(* no object, which raises out of get_cruise_id.  Not modelled:            *)
(* os.makedirs, the size probe, or the writes of the manifest and of the   *)
(* summary file raising.  Sizes are bytes, kept small; progress output and *)
(* the log are left out.                                                   *)
(***************************************************************************)
EXTENDS Integers, Sequences, FiniteSets, TLC

VARIABLES
    pc,                 \* position of the script
    cruise_id,          \* main / interactive_mode: cruise_id
    outputDir,          \* TRUE once os.makedirs(output_dir) has run
    copied,             \* root files copied into the output directory
    all_dirs,           \* package_for_r2r: all_dirs
    general_dirs,       \* package_for_r2r: general_dirs
    large_dataset_info, \* package_for_r2r: large_dataset_info (after the sort)
    idx,                \* STEP 2 loop position (1-based, as enumerate(..., 1))
    package_info,       \* package_for_r2r: package_info
    files,              \* names of the archives completely written
    attempts,           \* history: the archive builds started, in order
    missing_datasets,   \* package_for_r2r: missing_datasets
    manifestWritten,    \* TRUE once <cruise>_r2r_packages.md5 is written
    manifest,           \* its lines
    summaryWritten,     \* TRUE once <cruise>_r2r_summary.txt is written
    summary,            \* the report of generate_r2r_summary
    email,              \* "none", "sent" or "failed"
    exc                 \* the exception that ended the script uncaught: ""
                        \* for none, else the class of the one the
                        \* environment raised (PermissionError stands for
                        \* what os.listdir raises, OSError for what reading
                        \* an archive raises)

vars == <<pc, cruise_id, outputDir, copied, all_dirs,
          general_dirs, large_dataset_info, idx, package_info, files,
          attempts, missing_datasets, manifestWritten, manifest,
          summaryWritten, summary, email, exc>>

---------------------------------------------------------------------------
(* Bounds of the model *)

\* most entries (directories and root files) the cruise folder holds
MaxEntries == 3
\* largest size, in bytes, a directory probe returns
MaxSize == 2

---------------------------------------------------------------------------
(* Configuration and the environment's values *)

SOURCE_ROOT == "/mnt/CruiseData"
R2R_OUTPUT_DIR == "/mnt/CruiseData/r2r_packages"
R2R_LARGE_DATASETS == <<"em304", "em710", "ek80", "radar">>

\* Python's None
NoneValue == "<None>"
\* what the API can answer, what the operator can type (after .strip())
ApiAnswers == {NoneValue, "SKQ1"}
TypedIds == {"", "SKQ1"}
\* directory and file names a cruise folder can hold; of the allow-list,
\* em710 is never there
DatasetNamesOnDisk == {"em304", "ek80", "radar"}
GeneralNames == {"nav", "ctd"}
\* the sizes, in bytes, a written archive can have
ArchiveSizes == {1}
RootFileNames == {"readme.txt"}

\* Python truthiness of a str-or-None
Truthy(v) == v # NoneValue /\ v # ""

Range(s) == {s[i] : i \in 1..Len(s)}
DirNames == DatasetNamesOnDisk \cup GeneralNames \cup {"r2r"}

Reverse(s) == [i \in 1..Len(s) |-> s[Len(s) + 1 - i]]

\* the lists os.listdir can return for a folder of at most MaxEntries
\* directories: its names, each once, in any order (os.listdir promises
\* none)
Listings ==
    UNION {{s \in [1..n -> DirNames] : \A i, j \in 1..n : i # j => s[i] # s[j]} :
              n \in 0..MaxEntries}

RECURSIVE SumSeq(_)
SumSeq(s) == IF s = <<>> THEN 0 ELSE Head(s) + SumSeq(Tail(s))

---------------------------------------------------------------------------
(* Names *)

source_dir(cid) == SOURCE_ROOT \o "/" \o cid
output_dir(cid) == R2R_OUTPUT_DIR \o "/" \o cid
GeneralArchiveName(cid) == cid \o "_general.tar.gz"
DatasetArchiveName(cid, dataset) == cid \o "_" \o dataset \o ".tar.gz"

---------------------------------------------------------------------------
(* Number formatting *)

\* the integer nearest to num/den, a tie going to the even one
RoundHalfEven(num, den) ==
    LET q == num \div den
        r == num % den
    IN IF 2 * r < den THEN q
       ELSE IF 2 * r > den THEN q + 1
       ELSE IF q % 2 = 0 THEN q ELSE q + 1

\* f"{bytes:.2f}" of the float bytes = num/den, den a power of 1024: the
\* float holds num/den exactly (num is far below 2^53), and the format
\* rounds the exact value to two decimals, a tie going to the even digit
Fixed2(num, den) ==
    LET h == RoundHalfEven(num * 100, den)
    IN ToString(h \div 100) \o "." \o ToString((h % 100) \div 10)
                            \o ToString(h % 10)

RECURSIVE FormatBytesFrom(_, _, _)
FormatBytesFrom(num, den, units) ==
    IF units = <<>> THEN Fixed2(num, den) \o " PB"
    ELSE IF num < 1024 * den THEN Fixed2(num, den) \o " " \o Head(units)
    ELSE FormatBytesFrom(num, den * 1024, Tail(units))

format_bytes(bytes) ==
    FormatBytesFrom(bytes, 1, <<"B", "KB", "MB", "GB", "TB">>)

---------------------------------------------------------------------------
(* Binary floating point: Python's float is the IEEE 754 double, 53        *)
(* significant bits, every operation rounded to the nearest double, a tie  *)
(* going to the even one.  Binary numbers are sequences of 0 and 1, most   *)
(* significant digit first.                                                *)

\* the binary digits of a natural (<<>> for 0), and back
RECURSIVE NatBits(_)
NatBits(n) == IF n = 0 THEN <<>> ELSE Append(NatBits(n \div 2), n % 2)

RECURSIVE BitsNat(_)
BitsNat(b) ==
    IF b = <<>> THEN 0
    ELSE 2 * BitsNat(SubSeq(b, 1, Len(b) - 1)) + b[Len(b)]

Zeros(k) == [i \in 1..k |-> 0]

RECURSIVE StripZeros(_)
StripZeros(b) ==
    IF b # <<>> /\ Head(b) = 0 THEN StripZeros(Tail(b)) ELSE b

\* a + b + carry, the digits least significant first
RECURSIVE AddLsb(_, _, _)
AddLsb(a, b, carry) ==
    IF a = <<>> /\ b = <<>> THEN (IF carry = 1 THEN <<1>> ELSE <<>>)
    ELSE LET x == IF a = <<>> THEN 0 ELSE Head(a)
             y == IF b = <<>> THEN 0 ELSE Head(b)
             t == x + y + carry
         IN <<t % 2>> \o AddLsb(IF a = <<>> THEN <<>> ELSE Tail(a),
                                IF b = <<>> THEN <<>> ELSE Tail(b),
                                t \div 2)

AddBits(a, b) == StripZeros(Reverse(AddLsb(Reverse(a), Reverse(b), 0)))

\* a * k: the sum of the copies of a shifted to the 1 digits of k
RECURSIVE TimesBits(_, _)
TimesBits(a, k) ==
    IF k = <<>> THEN <<>>
    ELSE AddBits(IF Head(k) = 1 THEN a \o Zeros(Len(k) - 1) ELSE <<>>,
                 TimesBits(a, Tail(k)))

\* a double: the 53 digits m of its significand and the exponent e of the
\* last of them, value m * 2^e; zero has no digits
FloatZero == [m |-> <<>>, e |-> 0]

\* the double nearest to b * 2^e (+ something below the last digit of b
\* when sticky), b starting with a 1
RoundToDouble(b, e, sticky) ==
    IF Len(b) <= 53 THEN [m |-> b \o Zeros(53 - Len(b)), e |-> e - (53 - Len(b))]
    ELSE LET keep == SubSeq(b, 1, 53)
             rest == sticky \/ \E i \in 55..Len(b) : b[i] = 1
             up == b[54] = 1 /\ (rest \/ keep[53] = 1)
             inc == IF up THEN AddBits(keep, <<1>>) ELSE keep
             drop == Len(b) - 53
         IN IF Len(inc) = 54
            THEN [m |-> SubSeq(inc, 1, 53), e |-> e + drop + 1]
            ELSE [m |-> inc, e |-> e + drop]

\* long division: the quotient's digits from its first 1 on, 54 of them,
\* how many of them are behind the binary point, and whether a remainder
\* is left
RECURSIVE QuotientBits(_, _, _, _)
QuotientBits(b, frac, r, d) ==
    IF Len(b) >= 54 THEN [bits |-> b, frac |-> frac, sticky |-> r # 0]
    ELSE LET bit == IF 2 * r >= d THEN 1 ELSE 0
         IN QuotientBits(IF b = <<>> /\ bit = 0 THEN <<>> ELSE Append(b, bit),
                         frac + 1, 2 * r - bit * d, d)

\* a / b of two ints, a >= 0 and b > 0: the double nearest to the quotient
FloatDiv(a, b) ==
    IF a = 0 THEN FloatZero
    ELSE LET q == QuotientBits(NatBits(a \div b), 0, a % b, b)
         IN RoundToDouble(q.bits, 0 - q.frac, q.sticky)

\* x * k of a double and an int k > 0: the double nearest to the product
FloatTimes(x, k) ==
    IF x = FloatZero THEN FloatZero
    ELSE RoundToDouble(TimesBits(x.m, NatBits(k)), x.e, FALSE)

\* the number of tenths f"{x:.1f}" shows: the exact value of the double
\* rounded to one decimal, a tie going to the even digit
FloatTenths(x) ==
    IF x = FloatZero THEN 0
    ELSE LET p == TimesBits(x.m, NatBits(10))
             n == Len(p)
             f == 0 - x.e
         IN IF f <= 0 THEN BitsNat(p \o Zeros(0 - f))
            ELSE LET whole == IF n > f THEN BitsNat(SubSeq(p, 1, n - f))
                              ELSE 0
                     half == IF n >= f THEN p[n - f + 1] ELSE 0
                     rest == \E i \in (n - f + 2)..n : i >= 1 /\ p[i] = 1
                 IN IF half = 1 /\ (rest \/ whole % 2 = 1) THEN whole + 1
                    ELSE whole

TenthsText(t) == ToString(t \div 10) \o "." \o ToString(t % 10)

\* TRUE when n is 2^46 or more (2^46 = 1024^4 * 64)
Beyond46Bits(n) == (((n \div 1024) \div 1024) \div 1024) \div 1024 >= 64

\* f"{a / b * k:.1f}", a >= 0, b > 0, k > 0: the double a / b * k, rounded
\* to one decimal.  The double is within a / b * k * 2^-51 of the quotient;
\* when the quotient is not half way between two tenths it is at least
\* 1 / (20 * b) away from the nearest half way point, more than that error
\* for every a * k below 2^46, so the double rounds to the tenth the
\* quotient rounds to and the double need not be computed.  It is computed
\* when the quotient is half way and when a * k is 2^46 or more.
FloatText1(a, b, k) ==
    LET halfway == (20 * a * k) % b = 0 /\ ((20 * a * k) \div b) % 2 = 1
    IN IF halfway \/ Beyond46Bits(a * k)
       THEN TenthsText(FloatTenths(FloatTimes(FloatDiv(a, b), k)))
       ELSE TenthsText(RoundHalfEven(10 * a * k, b))

---------------------------------------------------------------------------
(* Compression ratio *)

\* the value of a Python expression that raised ZeroDivisionError
DivisionError == [raised |-> "ZeroDivisionError"]

\* a / b of two ints: the float quotient, held by its operands, or the
\* error when b is 0
TrueDiv(a, b) ==
    IF b = 0 THEN DivisionError ELSE [num |-> a, den |-> b, times |-> 1]

\* q * 100
Times100(q) == IF q = DivisionError THEN DivisionError
               ELSE [q EXCEPT !.times = 100]

\* the ratio computed without the zero guard
UnguardedRatio(compressed_size, source_size) ==
    Times100(TrueDiv(compressed_size, source_size))

\* (compressed_size / source_size * 100) if source_size > 0 else 0
Ratio(compressed_size, source_size) ==
    IF source_size > 0 THEN Times100(TrueDiv(compressed_size, source_size))
    ELSE [num |-> 0, den |-> 1, times |-> 1]

\* f"{ratio:.1f}%"
RatioText(ratio) == FloatText1(ratio.num, ratio.den, ratio.times) \o "%"

---------------------------------------------------------------------------
(* Checksums and the manifest *)

\* the digest of an archive file: a function of its bytes, which the model
\* identifies by the archive's name and length
calculate_md5(file) ==
    "md5(" \o file.name \o ":" \o ToString(file.size) \o ")"

\* f"{info['md5']}  {info['name']}\n"
ManifestLine(info) == info.md5 \o "  " \o info.name

\* the lines written without the first descriptor
ManifestLinesDropFirst(infos) ==
    [i \in 1..(Len(infos) - 1) |-> ManifestLine(infos[i + 1])]

\* for info in package_info: f.write(...)
ManifestLines(infos) == [i \in 1..Len(infos) |-> ManifestLine(infos[i])]

---------------------------------------------------------------------------
(* The size sort *)

\* x goes after every entry that is not larger: list.sort is stable
RECURSIVE InsertBySize(_, _)
InsertBySize(sorted, x) ==
    IF sorted = <<>> THEN <<x>>
    ELSE IF x.size < Head(sorted).size THEN <<x>> \o sorted
    ELSE <<Head(sorted)>> \o InsertBySize(Tail(sorted), x)

RECURSIVE SortFrom(_, _)
SortFrom(sorted, rest) ==
    IF rest = <<>> THEN sorted
    ELSE SortFrom(InsertBySize(sorted, Head(rest)), Tail(rest))

\* the list left as it was probed
Unsorted(info) == info

\* large_dataset_info.sort(key=lambda x: x['size'])
SortBySize(info) == SortFrom(<<>>, info)

---------------------------------------------------------------------------
(* The report *)

SummaryRow(info) ==
    [name       |-> info.name,
     original   |-> format_bytes(info.source_size),
     compressed |-> format_bytes(info.compressed_size),
     ratio      |-> Ratio(info.compressed_size, info.source_size)]

total_source(infos) ==
    SumSeq([i \in 1..Len(infos) |-> infos[i].source_size])
total_compressed(infos) ==
    SumSeq([i \in 1..Len(infos) |-> infos[i].compressed_size])

overall_ratio(infos) == Ratio(total_compressed(infos), total_source(infos))

\* TRUE when a ratio of the report raises
SummaryRaises(infos) ==
    \/ \E i \in 1..Len(infos) : SummaryRow(infos[i]).ratio = DivisionError
    \/ overall_ratio(infos) = DivisionError

generate_r2r_summary(cid, infos, out) ==
    [title     |-> "R2R Package Summary - " \o cid,
     output    |-> out,
     rows      |-> [i \in 1..Len(infos) |->
                     [SummaryRow(infos[i]) EXCEPT
                        !.ratio = RatioText(SummaryRow(infos[i]).ratio)]],
     total     |-> [original   |-> format_bytes(total_source(infos)),
                    compressed |-> format_bytes(total_compressed(infos)),
                    ratio      |-> RatioText(overall_ratio(infos))],
     checksums |-> [i \in 1..Len(infos) |-> ManifestLine(infos[i])]]

\* the report before anything is generated
NoSummary == [title |-> "", output |-> "", rows |-> <<>>,
              total |-> [original |-> "", compressed |-> "", ratio |-> ""],
              checksums |-> <<>>]

---------------------------------------------------------------------------
(* Classification of the cruise folder's directories *)

IsLargeName(d) == d \in Range(R2R_LARGE_DATASETS)

\* [d for d in all_dirs if d not in R2R_LARGE_DATASETS and d != "r2r"]
GeneralDirs(dirs) ==
    SelectSeq(dirs, LAMBDA d : ~IsLargeName(d) /\ d # "r2r")

\* [d for d in R2R_LARGE_DATASETS if d in all_dirs]
LargeDirsFound(dirs) ==
    SelectSeq(R2R_LARGE_DATASETS, LAMBDA d : d \in Range(dirs))

\* [d for d in R2R_LARGE_DATASETS if d not in all_dirs]
MissingDatasets(dirs) ==
    SelectSeq(R2R_LARGE_DATASETS, LAMBDA d : d \notin Range(dirs))

---------------------------------------------------------------------------
(* Records *)

\* a descriptor of package_info
Descriptor(name, out, source_size, file) ==
    [name            |-> name,
     path            |-> out \o "/" \o name,
     source_size     |-> source_size,
     compressed_size |-> file.size,
     md5             |-> calculate_md5(file)]

\* an archive completely written to the output directory: its name and its
\* length (what a build that raised leaves behind is not tracked)
ArchiveFile(name, size) == [name |-> name, size |-> size]

\* one started archive build: which directories, with what probed size
\* (NotProbed for the general package, sized while it is written), how it ended
NotProbed == 0 - 1
Attempt(kind, name, dirs, size, outcome) ==
    [kind |-> kind, name |-> name, dirs |-> dirs, size |-> size,
     outcome |-> outcome]

---------------------------------------------------------------------------
(* The initial state: the script has been started *)

Init ==
    /\ pc = "main"
    /\ cruise_id = NoneValue
    /\ outputDir = FALSE
    /\ copied = {}
    /\ all_dirs = <<>>
    /\ general_dirs = <<>>
    /\ large_dataset_info = <<>>
    /\ idx = 1
    /\ package_info = <<>>
    /\ files = {}
    /\ attempts = <<>>
    /\ missing_datasets = <<>>
    /\ manifestWritten = FALSE
    /\ manifest = <<>>
    /\ summaryWritten = FALSE
    /\ summary = NoSummary
    /\ email = "none"
    /\ exc = ""

packaging == <<outputDir, copied, all_dirs, general_dirs, large_dataset_info,
               idx, package_info, files, attempts, missing_datasets,
               manifestWritten, manifest, summaryWritten, summary, email, exc>>

---------------------------------------------------------------------------
(* main and interactive_mode *)

\* main: sys.stdin.isatty() selects the mode
main ==
    /\ pc = "main"
    /\ \E tty \in BOOLEAN :
         pc' = IF tty THEN "interactive_lookup" ELSE "unattended_lookup"
    /\ UNCHANGED <<cruise_id, packaging>>

\* cruise_id = get_cruise_id(): the API's cruiseID, or None when the request
\* raised a RequestException or the answer holds none.  Only
\* RequestException is caught: when the JSON of the answer is no object,
\* data.get raises AttributeError, which leaves get_cruise_id, the mode's
\* function and main before anything else is done
get_cruise_id ==
    /\ pc \in {"interactive_lookup", "unattended_lookup"}
    /\ \/ /\ \E answer \in ApiAnswers : cruise_id' = answer
          /\ pc' = IF pc = "interactive_lookup" THEN "interactive_mode"
                   ELSE "unattended"
          /\ UNCHANGED exc
       \/ /\ pc' = "lookup_raised"
          /\ exc' = "AttributeError"
          /\ UNCHANGED cruise_id
    /\ UNCHANGED <<outputDir, copied, all_dirs, general_dirs,
                   large_dataset_info, idx, package_info, files, attempts,
                   missing_datasets, manifestWritten, manifest,
                   summaryWritten, summary, email>>

\* main's unattended branch that goes on without an identifier
unattended_unchecked ==
    /\ pc = "unattended"
    /\ pc' = "check_source"
    /\ UNCHANGED <<cruise_id, packaging>>

\* interactive_mode up to "Using Cruise ID": confirm the looked-up
\* identifier, or ask for one when the lookup gave nothing
interactive_mode ==
    /\ pc = "interactive_mode"
    /\ \E typed \in TypedIds :
         IF Truthy(cruise_id)
         THEN /\ cruise_id' = IF typed # "" THEN typed ELSE cruise_id
              /\ pc' = "check_source"
         ELSE /\ cruise_id' = typed
              /\ pc' = IF typed = "" THEN "exit" ELSE "check_source"
    /\ UNCHANGED packaging

\* main, unattended: no identifier, no run
unattended ==
    /\ pc = "unattended"
    /\ pc' = IF Truthy(cruise_id) THEN "check_source" ELSE "exit"
    /\ UNCHANGED <<cruise_id, packaging>>

\* if not os.path.exists(source_dir): return
check_source ==
    /\ pc = "check_source"
    /\ \E exists \in BOOLEAN :
         pc' = IF exists THEN "package_for_r2r" ELSE "exit"
    /\ UNCHANGED <<cruise_id, packaging>>

---------------------------------------------------------------------------
(* package_for_r2r *)

\* os.makedirs(output_dir, exist_ok=True)
make_output_dir ==
    /\ pc = "package_for_r2r"
    /\ outputDir' = TRUE
    /\ pc' = "listdir"
    /\ UNCHANGED <<cruise_id, copied, all_dirs, general_dirs,
                   large_dataset_info, idx, package_info, files, attempts,
                   missing_datasets, manifestWritten, manifest,
                   summaryWritten, summary, email, exc>>

\* all_dirs = [d for d in os.listdir(source_dir) if isdir]; a listing that
\* raises is logged and the function returns
list_dirs ==
    /\ pc = "listdir"
    /\ \/ /\ pc' = "returned"
          /\ UNCHANGED all_dirs
       \/ /\ \E listing \in Listings : all_dirs' = listing
          /\ pc' = "copy_root"
    /\ UNCHANGED <<cruise_id, outputDir, copied,
                   general_dirs, large_dataset_info, idx, package_info,
                   files, attempts, missing_datasets, manifestWritten,
                   manifest, summaryWritten, summary, email, exc>>

\* root_files = [f for f in os.listdir(source_dir) if isfile]: this second
\* listing is in no try, and when it raises the exception leaves
\* package_for_r2r and main.  Otherwise the root files are copied one by
\* one; a copy that raises is logged
copy_root_files ==
    /\ pc = "copy_root"
    /\ \/ /\ pc' = "crashed"
          /\ exc' = "PermissionError"
          /\ UNCHANGED copied
       \/ /\ \E root_files \in SUBSET RootFileNames :
               /\ Cardinality(root_files) + Len(all_dirs) <= MaxEntries
               /\ \E failing \in SUBSET root_files :
                    copied' = root_files \ failing
          /\ pc' = "classify"
          /\ UNCHANGED exc
    /\ UNCHANGED <<cruise_id, outputDir, all_dirs,
                   general_dirs, large_dataset_info, idx, package_info,
                   files, attempts, missing_datasets, manifestWritten,
                   manifest, summaryWritten, summary, email>>

\* the datasets found, each with the size get_directory_size gave it
ProbedInfo(found, src, size) ==
    [i \in 1..Len(found) |->
        [name |-> found[i], path |-> src \o "/" \o found[i],
         size |-> size[found[i]]]]

\* general_dirs, large_dirs_found, the size probes and the sort
classify_and_probe ==
    /\ pc = "classify"
    /\ general_dirs' = GeneralDirs(all_dirs)
    /\ LET found == LargeDirsFound(all_dirs)
       IN \E size \in [Range(found) -> 0..MaxSize] :
             large_dataset_info' = SortBySize(ProbedInfo(found, source_dir(cruise_id), size))
    /\ pc' = "step1"
    /\ UNCHANGED <<cruise_id, outputDir, copied, all_dirs,
                   idx, package_info, files, attempts, missing_datasets,
                   manifestWritten, manifest, summaryWritten, summary,
                   email, exc>>

\* STEP 1 is skipped even when there are general directories
step1_always_skipped ==
    /\ pc = "step1"
    /\ pc' = "step2"
    /\ UNCHANGED <<cruise_id, outputDir, copied, all_dirs,
                   general_dirs, large_dataset_info, idx, package_info,
                   files, attempts, missing_datasets, manifestWritten,
                   manifest, summaryWritten, summary, email, exc>>

\* if general_dirs: ... is false
step1_skipped ==
    /\ pc = "step1"
    /\ general_dirs = <<>>
    /\ pc' = "step2"
    /\ UNCHANGED <<cruise_id, outputDir, copied, all_dirs,
                   general_dirs, large_dataset_info, idx, package_info,
                   files, attempts, missing_datasets, manifestWritten,
                   manifest, summaryWritten, summary, email, exc>>

\* STEP 1: every general directory is added to one archive, sized while it
\* is added; then the archive's size and digest are read and the descriptor
\* is appended
step1_general_ok ==
    /\ pc = "step1"
    /\ general_dirs # <<>>
    /\ \E size \in [Range(general_dirs) -> 0..MaxSize], comp \in ArchiveSizes :
         LET name == GeneralArchiveName(cruise_id)
             file == ArchiveFile(name, comp)
             total_source_size ==
                 SumSeq([i \in 1..Len(general_dirs) |-> size[general_dirs[i]]])
         IN /\ files' = files \cup {name}
            /\ package_info' =
                 Append(package_info,
                        Descriptor(name, output_dir(cruise_id),
                                   total_source_size, file))
            /\ attempts' =
                 Append(attempts,
                        Attempt("general", name, general_dirs, NotProbed, "ok"))
    /\ pc' = "step2"
    /\ UNCHANGED <<cruise_id, outputDir, copied, all_dirs,
                   general_dirs, large_dataset_info, idx, missing_datasets,
                   manifestWritten, manifest, summaryWritten, summary,
                   email, exc>>

\* STEP 1: opening the archive or adding a directory raises; the except
\* clause logs it
step1_build_fails ==
    /\ pc = "step1"
    /\ general_dirs # <<>>
    /\ LET name == GeneralArchiveName(cruise_id)
       IN /\ UNCHANGED files
          /\ attempts' =
               Append(attempts,
                      Attempt("general", name, general_dirs, NotProbed,
                              "build_failed"))
    /\ pc' = "step2"
    /\ UNCHANGED <<cruise_id, outputDir, copied, all_dirs,
                   general_dirs, large_dataset_info, idx, package_info,
                   missing_datasets, manifestWritten, manifest,
                   summaryWritten, summary, email, exc>>

\* STEP 1: the archive is written, os.path.getsize or calculate_md5 raises
\* inside the same try; the except clause logs it
step1_checksum_fails ==
    /\ pc = "step1"
    /\ general_dirs # <<>>
    /\ LET name == GeneralArchiveName(cruise_id)
       IN /\ files' = files \cup {name}
          /\ attempts' =
               Append(attempts,
                      Attempt("general", name, general_dirs, NotProbed,
                              "checksum_failed"))
    /\ pc' = "step2"
    /\ UNCHANGED <<cruise_id, outputDir, copied, all_dirs,
                   general_dirs, large_dataset_info, idx, package_info,
                   missing_datasets, manifestWritten, manifest,
                   summaryWritten, summary, email, exc>>

---------------------------------------------------------------------------
(* STEP 2: one archive per large dataset, in the sorted order *)

InStep2 == pc = "step2" /\ idx <= Len(large_dataset_info)

\* create_tarball returns True, the size and digest are read, the descriptor
\* is appended and the ratio printed
step2_dataset_ok ==
    /\ InStep2
    /\ \E comp \in ArchiveSizes :
         LET d == large_dataset_info[idx]
             name == DatasetArchiveName(cruise_id, d.name)
             file == ArchiveFile(name, comp)
         IN /\ files' = files \cup {name}
            /\ package_info' =
                 Append(package_info,
                        Descriptor(name, output_dir(cruise_id), d.size, file))
            /\ attempts' =
                 Append(attempts,
                        Attempt("large", name, <<d.name>>, d.size, "ok"))
            /\ IF Ratio(comp, d.size) = DivisionError
               THEN pc' = "crashed" /\ exc' = "ZeroDivisionError"
                    /\ UNCHANGED idx
               ELSE idx' = idx + 1 /\ UNCHANGED <<pc, exc>>
    /\ UNCHANGED <<cruise_id, outputDir, copied, all_dirs,
                   general_dirs, large_dataset_info, missing_datasets,
                   manifestWritten, manifest, summaryWritten, summary, email>>

\* create_tarball catches the exception, logs it and returns False: nothing
\* is appended and the loop goes on.  Its try holds the writing of the
\* archive and the os.path.getsize that follows: when the writing raised no
\* complete archive is left, when the getsize raised the complete archive
\* is in the output directory
step2_build_fails ==
    /\ InStep2
    /\ LET d == large_dataset_info[idx]
           name == DatasetArchiveName(cruise_id, d.name)
       IN /\ \E written \in BOOLEAN :
               files' = IF written THEN files \cup {name} ELSE files
          /\ attempts' =
               Append(attempts,
                      Attempt("large", name, <<d.name>>, d.size,
                              "build_failed"))
    /\ idx' = idx + 1
    /\ UNCHANGED <<pc, cruise_id, outputDir, copied,
                   all_dirs, general_dirs, large_dataset_info, package_info,
                   missing_datasets, manifestWritten, manifest,
                   summaryWritten, summary, email, exc>>

\* create_tarball returns True, then os.path.getsize or calculate_md5
\* raises: no try encloses them in STEP 2, the exception leaves
\* package_for_r2r
step2_checksum_fails ==
    /\ InStep2
    /\ LET d == large_dataset_info[idx]
           name == DatasetArchiveName(cruise_id, d.name)
       IN /\ files' = files \cup {name}
          /\ attempts' =
               Append(attempts,
                      Attempt("large", name, <<d.name>>, d.size,
                              "checksum_failed"))
    /\ pc' = "crashed"
    /\ exc' = "OSError"
    /\ UNCHANGED <<cruise_id, outputDir, copied, all_dirs,
                   general_dirs, large_dataset_info, idx, package_info,
                   missing_datasets, manifestWritten, manifest,
                   summaryWritten, summary, email>>

---------------------------------------------------------------------------
(* The manifest, the report and the notification *)

\* the missing datasets are logged and the manifest is written
write_manifest ==
    /\ pc = "step2"
    /\ idx > Len(large_dataset_info)
    /\ missing_datasets' = MissingDatasets(all_dirs)
    /\ manifest' = ManifestLines(package_info)
    /\ manifestWritten' = TRUE
    /\ pc' = "summary"
    /\ UNCHANGED <<cruise_id, outputDir, copied, all_dirs,
                   general_dirs, large_dataset_info, idx, package_info,
                   files, attempts, summaryWritten, summary, email, exc>>

\* generate_r2r_summary, print, and the summary file
write_summary ==
    /\ pc = "summary"
    /\ IF SummaryRaises(package_info)
       THEN /\ pc' = "crashed"
            /\ exc' = "ZeroDivisionError"
            /\ UNCHANGED <<summary, summaryWritten>>
       ELSE /\ summary' = generate_r2r_summary(cruise_id, package_info,
                                               output_dir(cruise_id))
            /\ summaryWritten' = TRUE
            /\ pc' = "email"
            /\ UNCHANGED exc
    /\ UNCHANGED <<cruise_id, outputDir, copied, all_dirs,
                   general_dirs, large_dataset_info, idx, package_info,
                   files, attempts, missing_datasets, manifestWritten,
                   manifest, email>>

\* send_r2r_email whose failure leaves package_for_r2r
send_r2r_email_raising ==
    /\ pc = "email"
    /\ \E sent \in BOOLEAN :
         IF sent THEN email' = "sent" /\ pc' = "done" /\ UNCHANGED exc
         ELSE email' = "failed" /\ pc' = "crashed" /\ exc' = "SMTPException"
    /\ UNCHANGED <<cruise_id, outputDir, copied, all_dirs,
                   general_dirs, large_dataset_info, idx, package_info,
                   files, attempts, missing_datasets, manifestWritten,
                   manifest, summaryWritten, summary>>

\* send_r2r_email catches whatever the relay raises; then
\* "R2R packaging completed" is logged
send_r2r_email ==
    /\ pc = "email"
    /\ \E sent \in BOOLEAN : email' = IF sent THEN "sent" ELSE "failed"
    /\ pc' = "done"
    /\ UNCHANGED <<cruise_id, outputDir, copied, all_dirs,
                   general_dirs, large_dataset_info, idx, package_info,
                   files, attempts, missing_datasets, manifestWritten,
                   manifest, summaryWritten, summary, exc>>

---------------------------------------------------------------------------
(* The specification *)

Next ==
    \/ main
    \/ get_cruise_id
    \/ interactive_mode
    \/ unattended
    \/ check_source
    \/ make_output_dir
    \/ list_dirs
    \/ copy_root_files
    \/ classify_and_probe
    \/ step1_skipped
    \/ step1_general_ok
    \/ step1_build_fails
    \/ step1_checksum_fails
    \/ step2_dataset_ok
    \/ step2_build_fails
    \/ step2_checksum_fails
    \/ write_manifest
    \/ write_summary
    \/ send_r2r_email

Spec == Init /\ [][Next]_vars

---------------------------------------------------------------------------
(* Vocabulary of the properties *)

LargeNames == {"em304", "em710", "ek80", "radar"}

\* the directories of the listing, by class
PresentDirs == Range(all_dirs)
PresentLarge == PresentDirs \cap LargeNames
PresentGeneral == (PresentDirs \ LargeNames) \ {"r2r"}

\* the history, by kind and by outcome
GeneralAttempts == SelectSeq(attempts, LAMBDA a : a.kind = "general")
LargeAttempts == SelectSeq(attempts, LAMBDA a : a.kind = "large")
OkAttempts == SelectSeq(attempts, LAMBDA a : a.outcome = "ok")
BuildFailures == {i \in 1..Len(attempts) : attempts[i].outcome = "build_failed"}
ChecksumFailures ==
    {i \in 1..Len(attempts) : attempts[i].outcome = "checksum_failed"}

\* where the script is
\* (a run that crashed on the second listing never got there)
CrashedPackaging == pc = "crashed" /\ exc # "PermissionError"
Classified ==
    pc \in {"step1", "step2", "summary", "email", "done"} \/ CrashedPackaging
PastStep1 == pc \in {"step2", "summary", "email", "done"} \/ CrashedPackaging
PastStep2 == pc \in {"summary", "email", "done"}
\* the run has ended after the cruise folder was listed
Ended == pc = "done" \/ CrashedPackaging

\* nothing has touched the file system
NoFilesystemWork ==
    /\ ~outputDir
    /\ copied = {}
    /\ files = {}
    /\ attempts = <<>>
    /\ ~manifestWritten
    /\ ~summaryWritten

ManifestNames == {package_info[i].name : i \in 1..Len(package_info)}

---------------------------------------------------------------------------
(* C1: once the manifest is written it holds exactly one                  *)
(* "<digest>  <name>" line per archive that was built and described, none *)
(* for an archive whose build or checksum failed, in creation order: the   *)
(* general package first, then the large datasets by ascending size; and   *)
(* every name in it is an archive in the output directory.                 *)
C1_ManifestIsProjection ==
    manifestWritten =>
      LET ok == OkAttempts
      IN  /\ Len(manifest) = Len(ok)
          /\ Len(package_info) = Len(ok)
          /\ \A i \in 1..Len(manifest) :
                /\ package_info[i].name = ok[i].name
                /\ manifest[i] = package_info[i].md5 \o "  " \o ok[i].name
                /\ ok[i].name \in files
                /\ i > 1 => ok[i].kind = "large"
          /\ \A i, j \in 1..Len(manifest) :
                i # j => ok[i].name # ok[j].name
          /\ \A i, j \in 1..Len(manifest) :
                (i < j /\ ok[i].kind = "large") => ok[i].size <= ok[j].size
          /\ \A k \in BuildFailures \cup ChecksumFailures :
                attempts[k].name \notin ManifestNames

\* a manifest of the general package and a dataset, written after another
\* dataset's build failed
C1_Witness ==
    /\ manifestWritten
    /\ Len(manifest) = 2
    /\ OkAttempts[1].kind = "general"
    /\ BuildFailures # {}

---------------------------------------------------------------------------
(* C2: the per-dataset archive attempts of STEP 2 are made in              *)
(* non-decreasing order of probed size, whatever the order of the          *)
(* allow-list and of the directory listing: the plan holds every           *)
(* allow-listed directory of the listing once, sorted, and the attempts    *)
(* follow the plan.                                                        *)
C2_AscendingSizeOrder ==
    LET large == LargeAttempts
    IN  /\ \A i, j \in 1..Len(large) :
              i < j => large[i].size <= large[j].size
        /\ Classified =>
              /\ Len(large_dataset_info) = Cardinality(PresentLarge)
              /\ {large_dataset_info[i].name :
                     i \in 1..Len(large_dataset_info)} = PresentLarge
              /\ \A i, j \in 1..Len(large_dataset_info) :
                    i < j => large_dataset_info[i].size
                                <= large_dataset_info[j].size
              /\ Len(large) <= Len(large_dataset_info)
              /\ \A i \in 1..Len(large) :
                    /\ large[i].dirs = <<large_dataset_info[i].name>>
                    /\ large[i].size = large_dataset_info[i].size

\* three datasets attempted as size 0, size 1, size 2, in the opposite of the
\* allow-list's order and not in the listing's order
C2_Witness ==
    /\ Len(LargeAttempts) = 3
    /\ LargeAttempts[1].dirs = <<"radar">> /\ LargeAttempts[1].size = 0
    /\ LargeAttempts[2].dirs = <<"ek80">> /\ LargeAttempts[2].size = 1
    /\ LargeAttempts[3].dirs = <<"em304">> /\ LargeAttempts[3].size = 2
    /\ all_dirs = <<"radar", "em304", "ek80">>

---------------------------------------------------------------------------
(* C3: when the listing holds a general directory, one combined archive    *)
(* <cruise>_general.tar.gz is attempted, for all the general directories,  *)
(* and it is the first attempt of the run, before every dataset archive,   *)
(* whatever the sizes.                                                     *)
C3_OneGeneralArchiveFirst ==
    /\ Len(GeneralAttempts) <= 1
    /\ (PastStep1 /\ PresentGeneral # {}) =>
          /\ Len(GeneralAttempts) = 1
          /\ attempts[1].kind = "general"
          /\ attempts[1].name = cruise_id \o "_general.tar.gz"
          /\ Range(attempts[1].dirs) = PresentGeneral
          /\ Len(attempts[1].dirs) = Cardinality(PresentGeneral)
    /\ (pc = "step1" /\ PresentGeneral # {}) => attempts = <<>>

\* the general package, of two directories and larger than the dataset
\* packaged after it
C3_Witness ==
    /\ Len(package_info) = 2
    /\ attempts[1].kind = "general"
    /\ Len(attempts[1].dirs) = 2
    /\ attempts[2].kind = "large"
    /\ package_info[1].source_size > package_info[2].source_size

---------------------------------------------------------------------------
(* C4: a failed archive build never stops the run: once the run has ended, *)
(* a dataset whose build failed is absent from the manifest and the        *)
(* report, the descriptors appended before it are still there, every       *)
(* dataset planned after it was attempted, and the summary file is         *)
(* written.                                                                *)
C4_NoFailFastOnBuildFailure ==
    (Ended /\ BuildFailures # {}) =>
        /\ manifestWritten
        /\ summaryWritten
        /\ \A k \in BuildFailures :
              /\ attempts[k].name \notin ManifestNames
              /\ \A i \in 1..Len(summary.rows) :
                    summary.rows[i].name # attempts[k].name
        /\ Len(LargeAttempts) = Len(large_dataset_info)

---------------------------------------------------------------------------
(* C5: a failure of os.path.getsize or calculate_md5 on a built archive,   *)
(* in STEP 1 or in STEP 2, omits that archive from the report and lets the *)
(* run go on: the remaining datasets are attempted and the manifest and    *)
(* the summary are written.                                                *)
C5_ChecksumFailureIsPerItem ==
    /\ ChecksumFailures # {} => pc # "crashed"
    /\ (Ended /\ ChecksumFailures # {}) =>
          /\ manifestWritten
          /\ summaryWritten
          /\ \A k \in ChecksumFailures :
                attempts[k].name \notin ManifestNames
          /\ Len(LargeAttempts) = Len(large_dataset_info)

---------------------------------------------------------------------------
(* C6: the email is attempted only once the manifest and the summary file  *)
(* are written; sent or failed, the step changes neither of them nor the   *)
(* archives nor the descriptors, and the run reaches its completion        *)
(* message.                                                                *)
C6_NotificationFireAndForget ==
    /\ [](pc = "email" => (manifestWritten /\ summaryWritten
                             /\ email = "none"))
    /\ [](email # "none" => (pc = "done" /\ exc = ""
                               /\ manifestWritten /\ summaryWritten))
    /\ [][pc = "email" =>
            /\ pc' = "done"
            /\ email' \in {"sent", "failed"}
            /\ UNCHANGED <<manifestWritten, manifest, summaryWritten,
                           summary, files, package_info, exc>>]_vars

\* a completed run whose email failed, with a manifest of two archives
C6_Witness ==
    /\ pc = "done"
    /\ email = "failed"
    /\ manifestWritten /\ summaryWritten
    /\ Len(manifest) = 2
    /\ Cardinality(files) = 2

---------------------------------------------------------------------------
\* get_cruise_id() has just returned None
LookupGaveNothing ==
    pc \in {"interactive_mode", "unattended"} /\ ~Truthy(cruise_id)

(* C7, as claimed: in both modes, a lookup that returns no identifier ends *)
(* the run there, with no file system work done.                           *)
C7_LookupFailureAbortsInBothModes ==
    [][LookupGaveNothing => (pc' = "exit" /\ NoFilesystemWork')]_vars

(* C7, amended: unattended, a lookup that returns no identifier ends the   *)
(* run before any file system work; interactive, the operator is asked for *)
(* an identifier, the run ends before any file system work when none is    *)
(* typed and goes on with the typed identifier otherwise; no early exit    *)
(* has done file system work and none is done without an identifier.       *)
C7_LookupFailureAbortsUnattended ==
    /\ [](pc = "exit" => NoFilesystemWork)
    /\ [](~Truthy(cruise_id) => NoFilesystemWork)
    /\ [][(pc = "unattended" /\ ~Truthy(cruise_id))
             => (pc' = "exit" /\ NoFilesystemWork')]_vars
    /\ [][(pc = "interactive_mode" /\ ~Truthy(cruise_id))
             => \/ pc' = "exit" /\ cruise_id' = "" /\ NoFilesystemWork'
                \/ pc' = "check_source" /\ Truthy(cruise_id')]_vars

\* the unattended run that ended on a lookup without identifier
C7_Witness ==
    /\ pc = "exit"
    /\ cruise_id = NoneValue
    /\ NoFilesystemWork

---------------------------------------------------------------------------
(* C8: once the run has ended: with no allow-listed directory in the       *)
(* listing no dataset archive was attempted; with no other directory       *)
(* (apart from r2r) no general archive was attempted and no general        *)
(* descriptor exists; and in both cases the manifest and the summary are   *)
(* written.                                                                *)
C8_EmptyGroupsProduceNoArchive ==
    Ended =>
        /\ PresentLarge = {} =>
              /\ LargeAttempts = <<>>
              /\ manifestWritten /\ summaryWritten
        /\ PresentGeneral = {} =>
              /\ GeneralAttempts = <<>>
              /\ cruise_id \o "_general.tar.gz" \notin ManifestNames
              /\ manifestWritten /\ summaryWritten

---------------------------------------------------------------------------
\* the ratio column as the report is specified to show it
ExpectedRatioText(compressed, original) ==
    IF original = 0 THEN "0.0%"
    ELSE FloatText1(compressed, original, 100) \o "%"

(* C9: no ratio of the report raises a division error: each row shows      *)
(* compressed/original*100 when the original size is positive and 0.0%     *)
(* when it is zero, and the totals row shows the same for the sums of the  *)
(* sizes, also when there is no row.                                       *)
C9_RatioNeverDividesByZero ==
    /\ exc # "ZeroDivisionError"
    /\ PastStep2 => (pc = "summary" \/ summaryWritten)
    /\ summaryWritten =>
          /\ Len(summary.rows) = Len(package_info)
          /\ \A i \in 1..Len(package_info) :
                summary.rows[i].ratio =
                    ExpectedRatioText(package_info[i].compressed_size,
                                      package_info[i].source_size)
          /\ summary.total.ratio =
                ExpectedRatioText(
                    SumSeq([i \in 1..Len(package_info) |->
                               package_info[i].compressed_size]),
                    SumSeq([i \in 1..Len(package_info) |->
                               package_info[i].source_size]))

\* a report with a zero-byte dataset (0.0%) beside a 50.0% one
C9_Witness ==
    /\ summaryWritten
    /\ Len(summary.rows) = 2
    /\ package_info[1].source_size = 0
    /\ summary.rows[1].ratio = "0.0%"
    /\ summary.rows[2].ratio = "50.0%"
    /\ summary.total.ratio = "100.0%"

---------------------------------------------------------------------------
\* the archive attempts a directory was part of
AttemptsHolding(d) ==
    {i \in 1..Len(attempts) : d \in Range(attempts[i].dirs)}

(* C10: once the run has ended, every directory of the listing other than  *)
(* r2r is in exactly one archive attempt (the general one if its name is   *)
(* not allow-listed, its own otherwise), r2r is in none, and an            *)
(* allow-listed name that is no directory of the listing is in none and    *)
(* raised nothing.                                                         *)
C10_PartitionPackagedOnce ==
    Ended =>
        /\ \A d \in PresentDirs \ {"r2r"} :
              /\ Cardinality(AttemptsHolding(d)) = 1
              /\ \A i \in AttemptsHolding(d) :
                    attempts[i].kind =
                        IF d \in LargeNames THEN "large" ELSE "general"
        /\ AttemptsHolding("r2r") = {}
        /\ \A d \in LargeNames \ PresentDirs : AttemptsHolding(d) = {}

====
